---- MODULE Spec2Model ----
(***************************************************************************)
(* A model of the user authentication service                              *)
(* (src/0x03-user_authentication_service): the users table behind DB, the  *)
(* operations of DB (add_user, find_user_by, update_user) and of Auth      *)
(* (register_user, valid_login, create_session, get_user_from_session_id,  *)
(* destroy_session, get_reset_password_token, update_password).            *)
(*                                                                         *)
(* Python values: None is the string NoneValue, which is no member of any  *)
(* input set of real strings; a str is a TLA+ string; a bcrypt hash is the *)
(* pair <<salt, password>>; a User instance is a record of its columns.    *)
(* The handlers run one at a time (sequential callers).                    *)
(*                                                                         *)
(* Table users is taken to exist in a.db and to be empty at start:         *)
(* DB.__init__ calls create_all on a Base that declares no table, so the   *)
(* table comes from outside this code.  SQLAlchemy is read as 1.4 or       *)
(* later, where a Session is a context manager that closes on exit.        *)
(***************************************************************************)
EXTENDS Integers, Sequences, FiniteSets, TLC

\* ------------------------------------------------------------- bounds
MaxUsers == 2          \* rows the users table may hold
MaxTokens == 2         \* calls of _generate_uuid in one behaviour
MaxThreads == 2        \* requests the server may be handling at once

\* ------------------------------------------------------------- values
NoneValue == "<None>"
Emails == {"a@x.com", "b@x.com"}
Passwords == {"p1", "p2"}
\* What bcrypt.gensalt() may return.
Salts == {"s1", "s2"}
\* str(uuid4()) of the i-th call: uuid4 values are taken to be pairwise
\* distinct and never the empty string.
UUIDS == <<"u1", "u2", "u3", "u4", "u5", "u6">>
Columns == {"id", "email", "hashed_password", "session_id", "reset_token"}

\* The User model (user.py): one row of table users.
User(id, email, hashed_password) ==
    [id |-> id, email |-> email, hashed_password |-> hashed_password,
     session_id |-> NoneValue, reset_token |-> NoneValue]

\* ------------------------------------------------------------- bcrypt
\* bcrypt.hashpw(password, salt): the salt is kept in the hash.
hashpw(password, salt) == <<salt, password>>
\* bcrypt.checkpw(password, hashed): re-hash under the hash's own salt.
checkpw(password, hashed) == hashpw(password, hashed[1]) = hashed
\* auth._hash_password with the salt gensalt() drew.
hash_password(password, salt) == hashpw(password, salt)

\* users: the rows of table users, row i having id i.
\* uuids: how many uuids _generate_uuid has returned.
\* last, pre_users: the latest call (its arguments and outcome) and the table
\*   before it.
\* History of what the callers were given: registered[e] is the password e
\*   registered with; session_issued[e] / reset_issued[e] the latest token
\*   create_session / get_reset_password_token returned for e, and
\*   session_superseded[e] / reset_superseded[e] the ones returned before it;
\*   resets_done holds <<token, email>> for every update_password call that
\*   returned normally, email being that of the record its lookup matched.
\* threads: where each request thread of the server stands in a
\*   register_user call that runs concurrently with others: idle, or between
\*   its lookup and its insert, with the arguments of the call.
VARIABLES users, uuids, last, pre_users, registered,
          session_issued, session_superseded, reset_issued, reset_superseded,
          resets_done, threads

vars == <<users, uuids, last, pre_users, registered,
          session_issued, session_superseded, reset_issued, reset_superseded,
          resets_done, threads>>

\* ------------------------------------------------------------- DB
\* DB._session: every access builds a new Session, which holds no instance.
\* A Session is modelled as the set of instances attached to it.
NewSession == {}

\* Session.commit(): flushes the instances attached to this session.
commit(tbl, session) ==
    [i \in 1..Len(tbl) |->
        IF \E u \in session : u.id = i
        THEN CHOOSE u \in session : u.id = i
        ELSE tbl[i]]

\* The outcome of a DB or Auth call: the exception raised ("" for none), the
\* value returned, the id of the User returned (0 for none), the table
\* afterwards, the number of SELECTs run and of uuids drawn.
Outcome(exc, ret, user, tbl, queries, drawn) ==
    [exc |-> exc, ret |-> ret, user |-> user, tbl |-> tbl,
     queries |-> queries, drawn |-> drawn]

\* DB.add_user: the row gets the next id and NULL tokens, and is committed.
add_user(tbl, email, hashed_password) ==
    Append(tbl, User(Len(tbl) + 1, email, hashed_password))

\* query(User).filter_by(**kwargs): a column compared with None is rendered
\* IS NULL, so a None value selects the rows whose column is NULL.
filter_by(tbl, kwargs) ==
    {i \in 1..Len(tbl) : \A k \in DOMAIN kwargs : tbl[i][k] = kwargs[k]}

\* find_user_by with .first() in place of .one(): the first row that matches.
find_user_by_first(tbl, kwargs) ==
    IF ~(DOMAIN kwargs \subseteq Columns)
    THEN [exc |-> "InvalidRequestError", user |-> 0]
    ELSE LET rows == filter_by(tbl, kwargs)
         IN IF rows = {} THEN [exc |-> "NoResultFound", user |-> 0]
            ELSE [exc |-> "",
                  user |-> CHOOSE i \in rows : \A j \in rows : i <= j]

\* DB.find_user_by: .one() of the filtered query, in a session of its own that
\* is closed on return, so the instance returned is detached.
\* An unknown column, or more than one row (MultipleResultsFound is an
\* InvalidRequestError), raises InvalidRequestError.
find_user_by(tbl, kwargs) ==
    IF ~(DOMAIN kwargs \subseteq Columns)
    THEN [exc |-> "InvalidRequestError", user |-> 0]
    ELSE LET rows == filter_by(tbl, kwargs)
         IN IF rows = {} THEN [exc |-> "NoResultFound", user |-> 0]
            ELSE IF Cardinality(rows) > 1
                 THEN [exc |-> "InvalidRequestError", user |-> 0]
                 ELSE [exc |-> "", user |-> CHOOSE i \in rows : TRUE]

\* setattr(user, key, value) for every key of kwargs, on one instance.
setattrs(user, kwargs) ==
    [c \in Columns |-> IF c \in DOMAIN kwargs THEN kwargs[c] ELSE user[c]]

\* hasattr(user, key): the columns of User, and what every declarative model
\* has besides (metadata).
hasattr(user, key) == key \in DOMAIN user \/ key = "metadata"

\* update_user without the hasattr test on the field names.
update_user_unvalidated(tbl, user_id, kwargs) ==
    LET session == NewSession
        found == find_user_by(tbl, [id |-> user_id])
    IN  IF found.exc # ""
        THEN [exc |-> found.exc, tbl |-> tbl]
        ELSE [exc |-> "", tbl |-> commit(tbl, session)]

\* update_user that attaches the changed user to its session and writes the
\* new values to every row (an UPDATE without its WHERE).
update_user_every_row(tbl, user_id, kwargs) ==
    LET found == find_user_by(tbl, [id |-> user_id])
    IN  IF found.exc # ""
        THEN [exc |-> found.exc, tbl |-> tbl]
        ELSE IF ~(DOMAIN kwargs \subseteq Columns)
        THEN [exc |-> "ValueError", tbl |-> tbl]
        ELSE [exc |-> "",
              tbl |-> commit(tbl, {setattrs(tbl[i], kwargs) : i \in 1..Len(tbl)})]

\* DB.update_user: opens session (a new one), loads the user through
\* find_user_by (another session, closed when it returns), sets the fields
\* on that detached instance and commits session, to which nothing is
\* attached.
update_user(tbl, user_id, kwargs) ==
    LET session == NewSession
        found == find_user_by(tbl, [id |-> user_id])
    IN  IF found.exc # ""
        THEN [exc |-> found.exc, tbl |-> tbl]
        ELSE IF \E key \in DOMAIN kwargs : ~hasattr(tbl[found.user], key)
        THEN [exc |-> "ValueError", tbl |-> tbl]
        ELSE LET user == setattrs(tbl[found.user], kwargs)
             IN  [exc |-> "", tbl |-> commit(tbl, session)]

\* ------------------------------------------------------------- Auth
\* register_user without the lookup that rejects a registered email.
register_user_unchecked(tbl, email, password, salt) ==
    IF password = NoneValue
    THEN Outcome("AttributeError", NoneValue, 0, tbl, 0, 0)
    ELSE Outcome("", "User", Len(tbl) + 1,
                 add_user(tbl, email, hash_password(password, salt)), 0, 0)

\* Auth.register_user
register_user(tbl, email, password, salt) ==
    LET found == find_user_by(tbl, [email |-> email])
    IN  IF found.exc = ""
        THEN Outcome("ValueError", NoneValue, 0, tbl, 1, 0)
        ELSE IF found.exc # "NoResultFound"
        THEN Outcome(found.exc, NoneValue, 0, tbl, 1, 0)
        ELSE IF password = NoneValue
        THEN Outcome("AttributeError", NoneValue, 0, tbl, 1, 0)
        ELSE Outcome("", "User", Len(tbl) + 1,
                     add_user(tbl, email, hash_password(password, salt)), 1, 0)

\* valid_login that accepts any password once the email is found.
valid_login_any_password(tbl, email, password) ==
    LET found == find_user_by(tbl, [email |-> email])
    IN  IF found.exc = "NoResultFound"
        THEN Outcome("", "False", 0, tbl, 1, 0)
        ELSE IF found.exc # ""
        THEN Outcome(found.exc, NoneValue, 0, tbl, 1, 0)
        ELSE IF password = NoneValue
        THEN Outcome("AttributeError", NoneValue, 0, tbl, 1, 0)
        ELSE Outcome("", "True", 0, tbl, 1, 0)

\* valid_login that lets NoResultFound escape.
valid_login_uncaught(tbl, email, password) ==
    LET found == find_user_by(tbl, [email |-> email])
    IN  IF found.exc # ""
        THEN Outcome(found.exc, NoneValue, 0, tbl, 1, 0)
        ELSE IF password = NoneValue
        THEN Outcome("AttributeError", NoneValue, 0, tbl, 1, 0)
        ELSE IF checkpw(password, tbl[found.user].hashed_password)
        THEN Outcome("", "True", 0, tbl, 1, 0)
        ELSE Outcome("", "False", 0, tbl, 1, 0)

\* Auth.valid_login
valid_login(tbl, email, password) ==
    LET found == find_user_by(tbl, [email |-> email])
    IN  IF found.exc = "NoResultFound"
        THEN Outcome("", "False", 0, tbl, 1, 0)
        ELSE IF found.exc # ""
        THEN Outcome(found.exc, NoneValue, 0, tbl, 1, 0)
        ELSE IF password = NoneValue
        THEN Outcome("AttributeError", NoneValue, 0, tbl, 1, 0)
        ELSE IF checkpw(password, tbl[found.user].hashed_password)
        THEN Outcome("", "True", 0, tbl, 1, 0)
        ELSE Outcome("", "False", 0, tbl, 1, 0)

\* Auth.create_session, uuid being what _generate_uuid returns if called.
create_session(tbl, email, uuid) ==
    LET found == find_user_by(tbl, [email |-> email])
    IN  IF found.exc = "NoResultFound"
        THEN Outcome("", NoneValue, 0, tbl, 1, 0)
        ELSE IF found.exc # ""
        THEN Outcome(found.exc, NoneValue, 0, tbl, 1, 0)
        ELSE LET upd == update_user(tbl, found.user, [session_id |-> uuid])
             IN  IF upd.exc = "NoResultFound"
                 THEN Outcome("", NoneValue, 0, upd.tbl, 2, 1)
                 ELSE IF upd.exc # ""
                 THEN Outcome(upd.exc, NoneValue, 0, upd.tbl, 2, 1)
                 ELSE Outcome("", uuid, 0, upd.tbl, 2, 1)

\* get_user_from_session_id without the test for None.
get_user_from_session_id_unguarded(tbl, session_id) ==
    LET found == find_user_by(tbl, [session_id |-> session_id])
    IN  IF found.exc = "NoResultFound"
        THEN Outcome("", NoneValue, 0, tbl, 1, 0)
        ELSE IF found.exc # ""
        THEN Outcome(found.exc, NoneValue, 0, tbl, 1, 0)
        ELSE Outcome("", "User", found.user, tbl, 1, 0)

\* Auth.get_user_from_session_id
get_user_from_session_id(tbl, session_id) ==
    IF session_id = NoneValue
    THEN Outcome("", NoneValue, 0, tbl, 0, 0)
    ELSE LET found == find_user_by(tbl, [session_id |-> session_id])
         IN  IF found.exc = "NoResultFound"
             THEN Outcome("", NoneValue, 0, tbl, 1, 0)
             ELSE IF found.exc # ""
             THEN Outcome(found.exc, NoneValue, 0, tbl, 1, 0)
             ELSE Outcome("", "User", found.user, tbl, 1, 0)

\* destroy_session that refuses a user whose session_id is already NULL.
destroy_session_strict(tbl, user_id) ==
    LET found == find_user_by(tbl, [id |-> user_id])
    IN  IF found.exc = "" /\ tbl[found.user].session_id = NoneValue
        THEN Outcome("ValueError", NoneValue, 0, tbl, 1, 0)
        ELSE LET upd == update_user(tbl, user_id, [session_id |-> NoneValue])
             IN  Outcome(upd.exc, NoneValue, 0, upd.tbl, 1, 0)

\* Auth.destroy_session
destroy_session(tbl, user_id) ==
    LET upd == update_user(tbl, user_id, [session_id |-> NoneValue])
    IN  Outcome(upd.exc, NoneValue, 0, upd.tbl, 1, 0)

\* get_reset_password_token that returns None for an unknown email, as
\* create_session does, where it should raise ValueError.
get_reset_password_token_silent(tbl, email, uuid) ==
    LET found == find_user_by(tbl, [email |-> email])
    IN  IF found.exc = "NoResultFound"
        THEN Outcome("", NoneValue, 0, tbl, 1, 0)
        ELSE IF found.exc # ""
        THEN Outcome(found.exc, NoneValue, 0, tbl, 1, 0)
        ELSE LET upd == update_user(tbl, found.user, [reset_token |-> uuid])
             IN  Outcome(upd.exc, IF upd.exc = "" THEN uuid ELSE NoneValue,
                         0, upd.tbl, 2, 1)

\* Auth.get_reset_password_token
get_reset_password_token(tbl, email, uuid) ==
    LET found == find_user_by(tbl, [email |-> email])
    IN  IF found.exc = "NoResultFound"
        THEN Outcome("ValueError", NoneValue, 0, tbl, 1, 0)
        ELSE IF found.exc # ""
        THEN Outcome(found.exc, NoneValue, 0, tbl, 1, 0)
        ELSE LET upd == update_user(tbl, found.user, [reset_token |-> uuid])
             IN  IF upd.exc = "NoResultFound"
                 THEN Outcome("ValueError", NoneValue, 0, upd.tbl, 2, 1)
                 ELSE IF upd.exc # ""
                 THEN Outcome(upd.exc, NoneValue, 0, upd.tbl, 2, 1)
                 ELSE Outcome("", uuid, 0, upd.tbl, 2, 1)

\* Auth.update_password: user is the id of the record the lookup matched.
update_password(tbl, reset_token, password, salt) ==
    LET found == find_user_by(tbl, [reset_token |-> reset_token])
    IN  IF found.exc = "NoResultFound"
        THEN Outcome("ValueError", NoneValue, 0, tbl, 1, 0)
        ELSE IF found.exc # ""
        THEN Outcome(found.exc, NoneValue, 0, tbl, 1, 0)
        ELSE IF password = NoneValue
        THEN Outcome("AttributeError", NoneValue, found.user, tbl, 1, 0)
        ELSE LET upd == update_user(tbl, found.user,
                            [hashed_password |-> hash_password(password, salt),
                             reset_token |-> NoneValue])
             IN  IF upd.exc = "NoResultFound"
                 THEN Outcome("ValueError", NoneValue, found.user, upd.tbl, 2, 0)
                 ELSE Outcome(upd.exc, NoneValue, found.user, upd.tbl, 2, 0)

\* ------------------------------------------------------------- calls
\* status and message are those of the HTTP response when the call is a
\* request to the Flask app (0 and "" otherwise); keys are the names of the
\* keyword arguments of a direct call of DB.find_user_by or DB.update_user.
NoCall == [op |-> "", email |-> NoneValue, password |-> NoneValue,
           token |-> NoneValue, user_id |-> 0, owner |-> NoneValue,
           exc |-> "", ret |-> NoneValue, user |-> 0, queries |-> 0,
           status |-> 0, message |-> "", keys |-> {}]

\* What a caller may pass as a token: None, the empty string, a string that
\* was never issued, and every uuid issued so far.
TokenInputs == {NoneValue, "", "forged"} \cup {UUIDS[i] : i \in 1..uuids}

\* The email whose latest reset token is token (None when there is none).
ResetOwner(token) ==
    IF \E e \in Emails : token # NoneValue /\ reset_issued[e] = token
    THEN CHOOSE e \in Emails : reset_issued[e] = token
    ELSE NoneValue

\* bcrypt.gensalt() draws a salt only in a call that gets to hash a password.
GenSalt(hashes) == IF hashes THEN Salts ELSE {"s1"}

\* The request threads, and a thread that is in no call.
Threads == 1..MaxThreads
Idle == [pc |-> "idle", email |-> NoneValue, password |-> NoneValue]

\* A call with outcome o becomes the latest call.
Returns(call, o) ==
    /\ Len(o.tbl) <= MaxUsers
    /\ threads' = threads
    /\ uuids + o.drawn <= MaxTokens
    /\ users' = o.tbl
    /\ pre_users' = users
    /\ uuids' = uuids + o.drawn
    /\ last' = [call EXCEPT !.exc = o.exc, !.ret = o.ret, !.user = o.user,
                            !.queries = o.queries]

Init ==
    /\ users = <<>>
    /\ uuids = 0
    /\ last = NoCall
    /\ pre_users = <<>>
    /\ registered = [e \in Emails |-> NoneValue]
    /\ session_issued = [e \in Emails |-> NoneValue]
    /\ session_superseded = [e \in Emails |-> {}]
    /\ reset_issued = [e \in Emails |-> NoneValue]
    /\ reset_superseded = [e \in Emails |-> {}]
    /\ resets_done = {}
    /\ threads = [t \in Threads |-> Idle]

RegisterUser ==
    \E email \in Emails, password \in Passwords \cup {NoneValue} :
      \E salt \in GenSalt(find_user_by(users, [email |-> email]).exc = "NoResultFound"
                          /\ password # NoneValue) :
        LET o == register_user(users, email, password, salt)
        IN  /\ Returns([NoCall EXCEPT !.op = "register_user", !.email = email,
                                      !.password = password], o)
            /\ registered' = IF o.exc = ""
                             THEN [registered EXCEPT ![email] = password]
                             ELSE registered
            /\ UNCHANGED <<session_issued, session_superseded,
                           reset_issued, reset_superseded, resets_done>>

ValidLogin ==
    \E email \in Emails \cup {NoneValue}, password \in Passwords \cup {NoneValue} :
        LET o == valid_login(users, email, password)
        IN  /\ Returns([NoCall EXCEPT !.op = "valid_login", !.email = email,
                                      !.password = password], o)
            /\ UNCHANGED <<registered, session_issued, session_superseded,
                           reset_issued, reset_superseded, resets_done>>

CreateSession ==
    \E email \in Emails \cup {NoneValue} :
        LET o == create_session(users, email, UUIDS[uuids + 1])
            issued == o.exc = "" /\ o.ret # NoneValue
        IN  /\ Returns([NoCall EXCEPT !.op = "create_session", !.email = email], o)
            /\ session_issued' =
                  IF issued THEN [session_issued EXCEPT ![email] = o.ret]
                  ELSE session_issued
            /\ session_superseded' =
                  IF issued /\ session_issued[email] # NoneValue
                  THEN [session_superseded EXCEPT
                           ![email] = @ \cup {session_issued[email]}]
                  ELSE session_superseded
            /\ UNCHANGED <<registered, reset_issued, reset_superseded,
                           resets_done>>

GetUserFromSessionId ==
    \E session_id \in TokenInputs :
        LET o == get_user_from_session_id(users, session_id)
        IN  /\ Returns([NoCall EXCEPT !.op = "get_user_from_session_id",
                                      !.token = session_id], o)
            /\ UNCHANGED <<registered, session_issued, session_superseded,
                           reset_issued, reset_superseded, resets_done>>

DestroySession ==
    \E user_id \in 1..MaxUsers :
        LET o == destroy_session(users, user_id)
        IN  /\ Returns([NoCall EXCEPT !.op = "destroy_session",
                                      !.user_id = user_id], o)
            /\ UNCHANGED <<registered, session_issued, session_superseded,
                           reset_issued, reset_superseded, resets_done>>

GetResetPasswordToken ==
    \E email \in Emails \cup {NoneValue} :
        LET o == get_reset_password_token(users, email, UUIDS[uuids + 1])
            issued == o.exc = "" /\ o.ret # NoneValue
        IN  /\ Returns([NoCall EXCEPT !.op = "get_reset_password_token",
                                      !.email = email], o)
            /\ reset_issued' =
                  IF issued THEN [reset_issued EXCEPT ![email] = o.ret]
                  ELSE reset_issued
            /\ reset_superseded' =
                  IF issued /\ reset_issued[email] # NoneValue
                  THEN [reset_superseded EXCEPT
                           ![email] = @ \cup {reset_issued[email]}]
                  ELSE reset_superseded
            /\ UNCHANGED <<registered, session_issued, session_superseded,
                           resets_done>>

\* A reset token that update_password accepted is no longer anyone's latest.
UpdatePassword ==
    \E reset_token \in TokenInputs, password \in Passwords \cup {NoneValue} :
      \E salt \in GenSalt(find_user_by(users, [reset_token |-> reset_token]).exc = ""
                          /\ password # NoneValue) :
        LET o == update_password(users, reset_token, password, salt)
            owner == ResetOwner(reset_token)
        IN  /\ Returns([NoCall EXCEPT !.op = "update_password",
                                      !.token = reset_token,
                                      !.password = password,
                                      !.owner = owner], o)
            /\ reset_issued' =
                  IF o.exc = "" /\ owner # NoneValue
                  THEN [reset_issued EXCEPT ![owner] = NoneValue]
                  ELSE reset_issued
            /\ resets_done' =
                  IF o.exc = ""
                  THEN resets_done \cup {<<reset_token, users[o.user].email>>}
                  ELSE resets_done
            /\ UNCHANGED <<registered, session_issued, session_superseded,
                           reset_superseded>>

Next ==
    \/ RegisterUser
    \/ ValidLogin
    \/ CreateSession
    \/ GetUserFromSessionId
    \/ DestroySession
    \/ GetResetPasswordToken
    \/ UpdatePassword

Spec == Init /\ [][Next]_vars

\* ------------------------------------------------------------- claims
\* The emails of the rows of a table.
EmailsOf(tbl) == {tbl[i].email : i \in 1..Len(tbl)}

\* get_user_from_session_id(token) returns the user registered as email.
ResolvesTo(token, email) ==
    LET o == get_user_from_session_id(users, token)
    IN  o.exc = "" /\ o.ret = "User" /\ users[o.user].email = email

\* get_user_from_session_id(token) returns None.
ResolvesToNone(token) ==
    LET o == get_user_from_session_id(users, token)
    IN  o.exc = "" /\ o.ret = NoneValue

\* C1 (as claimed): the token create_session has just returned for a
\* registered email resolves to that user, and once destroy_session(user.id)
\* has returned, the token issued to that user resolves to None.
C1_SessionResolvesUntilDestroyed ==
    /\ (last.op = "create_session" /\ last.exc = "" /\ last.ret # NoneValue)
          => ResolvesTo(last.ret, last.email)
    /\ (last.op = "destroy_session" /\ last.exc = "")
          => LET e == users[last.user_id].email
             IN  session_issued[e] # NoneValue
                    => ResolvesToNone(session_issued[e])

\* C2 (as claimed): a hashed_password changes only in an update_password call
\* whose token is the non-null reset_token stored in that record; every other
\* update_password call, a None token included, raises ValueError and leaves
\* the table as it was.
C2_PasswordChangesOnlyByPendingToken ==
    /\ \A i \in 1..Len(pre_users) :
          users[i].hashed_password # pre_users[i].hashed_password
             => /\ last.op = "update_password"
                /\ last.token # NoneValue
                /\ pre_users[i].reset_token = last.token
    /\ (/\ last.op = "update_password" /\ last.password # NoneValue
        /\ ~\E i \in 1..Len(pre_users) :
               last.token # NoneValue /\ pre_users[i].reset_token = last.token)
          => last.exc = "ValueError" /\ users = pre_users

\* C3 (as claimed): update_password with the token get_reset_password_token
\* last returned for a user, not accepted before, returns normally and leaves
\* that record's reset_token NULL; with a token it accepted before it raises
\* ValueError.
C3_ResetTokenConsumedOnce ==
    /\ (last.op = "update_password" /\ last.owner # NoneValue
          /\ last.password # NoneValue)
          => /\ last.exc = ""
             /\ \A i \in 1..Len(users) :
                   users[i].email = last.owner
                      => users[i].reset_token = NoneValue
    /\ (last.op = "update_password" /\ last.token # NoneValue
          /\ last.owner = NoneValue
          /\ \E d \in resets_done : d[1] = last.token)
          => last.exc = "ValueError"

\* C4 (as claimed): once update_password(token, new) has returned normally
\* for the record its token selected, valid_login(email, new) is True and
\* valid_login(email, old) is False for the password old /= new that
\* logged in before.
C4_NewPasswordReplacesOld ==
    (last.op = "update_password" /\ last.exc = "")
       => LET e == users[last.user].email
          IN  /\ valid_login(users, e, last.password).ret = "True"
              /\ \A q \in Passwords \ {last.password} :
                    valid_login(pre_users, e, q).ret = "True"
                       => valid_login(users, e, q).ret = "False"

\* C5: for every email registered with password p for which no
\* update_password call has returned normally, valid_login(email, p) is True
\* and valid_login(email, q) is False for every other password q, whatever
\* session and reset-request calls were made.
C5_ValidLoginIffRegisteredPassword ==
    \A e \in Emails :
        (registered[e] # NoneValue /\ ~\E d \in resets_done : d[2] = e)
           => \A q \in Passwords :
                 LET o == valid_login(users, e, q)
                 IN  /\ o.exc = ""
                     /\ (o.ret = "True") = (q = registered[e])
                     /\ o.ret \in {"True", "False"}

\* C5's case: a registered user who was given a session token and a reset
\* token logs in with the registered password.
C5_Witness ==
    /\ last.op = "valid_login" /\ last.ret = "True"
    /\ last.email \in Emails
    /\ registered[last.email] = last.password
    /\ session_issued[last.email] # NoneValue
    /\ reset_issued[last.email] # NoneValue
    /\ resets_done = {}

\* C6: register_user with an email that is already registered raises
\* ValueError and leaves the table (no new row, the existing rows unchanged)
\* as it was.
C6_DuplicateRegistrationRejected ==
    (last.op = "register_user" /\ last.email \in EmailsOf(pre_users))
       => /\ last.exc = "ValueError"
          /\ users = pre_users
          /\ Cardinality({i \in 1..Len(users) : users[i].email = last.email}) = 1

\* C6's case: a second registration of a registered email, with another
\* password, while another user is registered too.
C6_Witness ==
    /\ last.op = "register_user" /\ last.exc = "ValueError"
    /\ last.email \in EmailsOf(pre_users)
    /\ last.password \in Passwords /\ last.password # registered[last.email]
    /\ Len(users) = 2

\* C7: valid_login with an email no row has returns False, raises nothing and
\* leaves the table as it was.
C7_UnknownEmailIsFalse ==
    (last.op = "valid_login" /\ last.email \notin EmailsOf(pre_users))
       => last.exc = "" /\ last.ret = "False" /\ users = pre_users

\* C7's case: a login for an unregistered email while the store holds a user.
C7_Witness ==
    /\ last.op = "valid_login" /\ last.ret = "False"
    /\ last.email \in Emails \ EmailsOf(users)
    /\ last.password \in Passwords
    /\ Len(users) = 1

C9_OneActiveSessionToken ==
    (last.op = "create_session" /\ last.exc = "" /\ last.ret # NoneValue)
       => /\ \A i \in 1..Len(pre_users) :
                pre_users[i].email = last.email
                   => pre_users[i].session_id # last.ret
          /\ session_superseded[last.email] # {}
                => /\ \A t1 \in session_superseded[last.email] :
                         ResolvesToNone(t1)
                   /\ ResolvesTo(last.ret, last.email)

\* C10 (as claimed): when get_reset_password_token returned R1 and later R2
\* for the same email, update_password(R1, p) raises ValueError and leaves
\* the table as it was, and update_password(R2, p) returns normally.
C10_NewResetTokenReplacesOld ==
    /\ (last.op = "update_password" /\ last.password # NoneValue
          /\ \E e \in Emails : last.token \in reset_superseded[e])
          => last.exc = "ValueError" /\ users = pre_users
    /\ (last.op = "update_password" /\ last.password # NoneValue
          /\ last.owner # NoneValue
          /\ reset_superseded[last.owner] # {})
          => last.exc = ""


\* The ids of the rows of a table.
IdsOf(tbl) == 1..Len(tbl)

\* C11: destroy_session(user_id) for a registered user raises nothing and
\* leaves that record's session_id NULL, and one more destroy_session(user_id)
\* raises nothing either and leaves the table as the first call left it.
C11_DestroySessionIdempotent ==
    (last.op = "destroy_session" /\ last.user_id \in IdsOf(pre_users))
       => /\ last.exc = ""
          /\ users[last.user_id].session_id = NoneValue
          /\ LET again == destroy_session(users, last.user_id)
             IN  again.exc = "" /\ again.tbl = users

\* C11's case: destroy_session returns for a registered user who was given
\* a session token.
C11_Witness ==
    /\ last.op = "destroy_session" /\ last.exc = ""
    /\ last.user_id \in IdsOf(users)
    /\ session_issued[users[last.user_id].email] # NoneValue
    /\ users = pre_users

\* C12: for an email no row has, get_reset_password_token raises ValueError
\* and create_session returns None without raising, and the table is left as
\* it was.
C12_NoTokenForUnknownEmail ==
    (last.email \notin EmailsOf(pre_users))
       => /\ (last.op = "get_reset_password_token")
                => last.exc = "ValueError" /\ users = pre_users
          /\ (last.op = "create_session")
                => /\ last.exc = "" /\ last.ret = NoneValue
                   /\ users = pre_users

\* C12's case: a reset token is asked for an unregistered email while
\* another user is registered.
C12_Witness ==
    /\ last.op = "get_reset_password_token" /\ last.exc = "ValueError"
    /\ last.email \in Emails \ EmailsOf(users)
    /\ Len(users) = 1

\* The exceptions the interface of Auth names for each operation.
Enumerated(op) ==
    IF op \in {"register_user", "get_reset_password_token", "update_password"}
    THEN {"", "ValueError"}
    ELSE {""}

\* C13 (as claimed): every call of an Auth operation returns or raises the
\* error its interface names (ValueError for register_user,
\* get_reset_password_token and update_password), and nothing else.
C13_OnlyEnumeratedErrors ==
    last.exc \in Enumerated(last.op)

\* C20: create_session and destroy_session leave every hashed_password and
\* reset_token as they were, get_reset_password_token and update_password
\* leave every session_id as it was, and each of the four leaves every row
\* other than the one it addresses as it was.
C20_Target ==
    IF last.op \in {"create_session", "get_reset_password_token"}
    THEN {i \in IdsOf(pre_users) : pre_users[i].email = last.email}
    ELSE IF last.op = "destroy_session" THEN {last.user_id}
    ELSE {last.user}

C20_AxesIndependent ==
    /\ (last.op \in {"create_session", "destroy_session"})
          => /\ Len(users) = Len(pre_users)
             /\ \A i \in IdsOf(pre_users) :
                   /\ users[i].hashed_password = pre_users[i].hashed_password
                   /\ users[i].reset_token = pre_users[i].reset_token
    /\ (last.op \in {"get_reset_password_token", "update_password"})
          => /\ Len(users) = Len(pre_users)
             /\ \A i \in IdsOf(pre_users) :
                   users[i].session_id = pre_users[i].session_id
    /\ (last.op \in {"create_session", "destroy_session",
                     "get_reset_password_token", "update_password"})
          => \A i \in IdsOf(pre_users) \ C20_Target : users[i] = pre_users[i]

\* C20's case: a session is created for one of two registered users, who
\* was given a reset token before.
C20_Witness ==
    /\ last.op = "create_session" /\ last.exc = "" /\ last.ret # NoneValue
    /\ Len(users) = 2
    /\ reset_issued[last.email] # NoneValue


\* ------------------------------------------------------------- Flask app
\* A response of the app: its status, the "message" of its JSON body, the
\* value it carries (the session_id cookie it sets, or the reset_token of its
\* body), and what the Auth calls behind it did.  An exception no view
\* catches makes Flask answer 500.
Response(status, message, value, exc, user, tbl, queries, drawn) ==
    [status |-> status, message |-> message, ret |-> value, exc |-> exc,
     user |-> user, tbl |-> tbl, queries |-> queries, drawn |-> drawn]

ServerError(o, queries, drawn) ==
    Response(500, "", NoneValue, o.exc, 0, o.tbl, queries, drawn)

\* app.create_user: POST /users
app_create_user(tbl, email, password, salt) ==
    LET o == register_user(tbl, email, password, salt)
    IN  IF o.exc = ""
        THEN Response(200, "user created", NoneValue, "", o.user, o.tbl,
                      o.queries, 0)
        ELSE IF o.exc = "ValueError"
        THEN Response(400, "email already registered", NoneValue, "", 0,
                      o.tbl, o.queries, 0)
        ELSE ServerError(o, o.queries, 0)

\* app.login: POST /sessions
app_login(tbl, email, password, uuid) ==
    LET v == valid_login(tbl, email, password)
    IN  IF v.exc # "" THEN ServerError(v, v.queries, 0)
        ELSE IF v.ret # "True"
        THEN Response(401, "", NoneValue, "", 0, tbl, v.queries, 0)
        ELSE LET o == create_session(tbl, email, uuid)
             IN  IF o.exc # ""
                 THEN ServerError(o, v.queries + o.queries, o.drawn)
                 ELSE Response(200, "logged in", o.ret, "", 0, o.tbl,
                               v.queries + o.queries, o.drawn)

\* app.logout: DELETE /sessions
app_logout(tbl, session_id) ==
    LET u == get_user_from_session_id(tbl, session_id)
    IN  IF u.exc # "" THEN ServerError(u, u.queries, 0)
        ELSE IF u.ret = NoneValue
        THEN Response(403, "", NoneValue, "", 0, tbl, u.queries, 0)
        ELSE LET o == destroy_session(tbl, u.user)
             IN  IF o.exc # "" THEN ServerError(o, u.queries + o.queries, 0)
                 ELSE Response(302, "", NoneValue, "", u.user, o.tbl,
                               u.queries + o.queries, 0)

\* app.profile: GET /profile
app_profile(tbl, session_id) ==
    LET u == get_user_from_session_id(tbl, session_id)
    IN  IF u.exc # "" THEN ServerError(u, u.queries, 0)
        ELSE IF u.ret = NoneValue
        THEN Response(403, "", NoneValue, "", 0, tbl, u.queries, 0)
        ELSE Response(200, "", NoneValue, "", u.user, tbl, u.queries, 0)

\* app.reset_password: POST /reset_password
app_reset_password(tbl, email, uuid) ==
    LET o == get_reset_password_token(tbl, email, uuid)
    IN  IF o.exc = ""
        THEN Response(200, "", o.ret, "", 0, o.tbl, o.queries, o.drawn)
        ELSE IF o.exc = "ValueError"
        THEN Response(403, "", NoneValue, "", 0, o.tbl, o.queries, o.drawn)
        ELSE ServerError(o, o.queries, o.drawn)

\* app.update_password: PUT /reset_password
app_update_password(tbl, reset_token, new_password, salt) ==
    LET o == update_password(tbl, reset_token, new_password, salt)
    IN  IF o.exc = ""
        THEN Response(200, "Password updated", NoneValue, "", o.user, o.tbl,
                      o.queries, 0)
        ELSE IF o.exc = "ValueError"
        THEN Response(403, "", NoneValue, "", 0, o.tbl, o.queries, 0)
        ELSE ServerError(o, o.queries, 0)

\* The email whose latest session token is token (None when there is none).
SessionOwner(token) ==
    IF \E e \in Emails : token # NoneValue /\ session_issued[e] = token
    THEN CHOOSE e \in Emails : session_issued[e] = token
    ELSE NoneValue

\* A request answered by r becomes the latest call.
Responds(call, r) ==
    /\ Len(r.tbl) <= MaxUsers
    /\ threads' = threads
    /\ uuids + r.drawn <= MaxTokens
    /\ users' = r.tbl
    /\ pre_users' = users
    /\ uuids' = uuids + r.drawn
    /\ last' = [call EXCEPT !.exc = r.exc, !.ret = r.ret, !.user = r.user,
                            !.queries = r.queries, !.status = r.status,
                            !.message = r.message]

PostUsers ==
    \E email \in Emails, password \in Passwords \cup {NoneValue} :
      \E salt \in GenSalt(find_user_by(users, [email |-> email]).exc = "NoResultFound"
                          /\ password # NoneValue) :
        LET r == app_create_user(users, email, password, salt)
        IN  /\ Responds([NoCall EXCEPT !.op = "POST /users", !.email = email,
                                       !.password = password], r)
            /\ registered' = IF r.status = 200
                             THEN [registered EXCEPT ![email] = password]
                             ELSE registered
            /\ UNCHANGED <<session_issued, session_superseded,
                           reset_issued, reset_superseded, resets_done>>

PostSessions ==
    \E email \in Emails \cup {NoneValue}, password \in Passwords \cup {NoneValue} :
        LET r == app_login(users, email, password, UUIDS[uuids + 1])
            issued == r.status = 200
        IN  /\ Responds([NoCall EXCEPT !.op = "POST /sessions",
                                       !.email = email,
                                       !.password = password], r)
            /\ session_issued' =
                  IF issued THEN [session_issued EXCEPT ![email] = r.ret]
                  ELSE session_issued
            /\ session_superseded' =
                  IF issued /\ session_issued[email] # NoneValue
                  THEN [session_superseded EXCEPT
                           ![email] = @ \cup {session_issued[email]}]
                  ELSE session_superseded
            /\ UNCHANGED <<registered, reset_issued, reset_superseded,
                           resets_done>>

\* A session that a logout ended is no longer anyone's latest.
DeleteSessions ==
    \E session_id \in TokenInputs :
        LET r == app_logout(users, session_id)
            owner == SessionOwner(session_id)
        IN  /\ Responds([NoCall EXCEPT !.op = "DELETE /sessions",
                                       !.token = session_id,
                                       !.owner = owner], r)
            /\ session_issued' =
                  IF r.status = 302 /\ owner # NoneValue
                  THEN [session_issued EXCEPT ![owner] = NoneValue]
                  ELSE session_issued
            /\ UNCHANGED <<registered, session_superseded, reset_issued,
                           reset_superseded, resets_done>>

GetProfile ==
    \E session_id \in TokenInputs :
        LET r == app_profile(users, session_id)
        IN  /\ Responds([NoCall EXCEPT !.op = "GET /profile",
                                       !.token = session_id,
                                       !.owner = SessionOwner(session_id)], r)
            /\ UNCHANGED <<registered, session_issued, session_superseded,
                           reset_issued, reset_superseded, resets_done>>

PostResetPassword ==
    \E email \in Emails \cup {NoneValue} :
        LET r == app_reset_password(users, email, UUIDS[uuids + 1])
            issued == r.status = 200 /\ r.ret # NoneValue
        IN  /\ Responds([NoCall EXCEPT !.op = "POST /reset_password",
                                       !.email = email], r)
            /\ reset_issued' =
                  IF issued THEN [reset_issued EXCEPT ![email] = r.ret]
                  ELSE reset_issued
            /\ reset_superseded' =
                  IF issued /\ reset_issued[email] # NoneValue
                  THEN [reset_superseded EXCEPT
                           ![email] = @ \cup {reset_issued[email]}]
                  ELSE reset_superseded
            /\ UNCHANGED <<registered, session_issued, session_superseded,
                           resets_done>>

PutResetPassword ==
    \E reset_token \in TokenInputs, password \in Passwords \cup {NoneValue} :
      \E salt \in GenSalt(find_user_by(users, [reset_token |-> reset_token]).exc = ""
                          /\ password # NoneValue) :
        LET r == app_update_password(users, reset_token, password, salt)
            owner == ResetOwner(reset_token)
        IN  /\ Responds([NoCall EXCEPT !.op = "PUT /reset_password",
                                       !.token = reset_token,
                                       !.password = password,
                                       !.owner = owner], r)
            /\ reset_issued' =
                  IF r.status = 200 /\ owner # NoneValue
                  THEN [reset_issued EXCEPT ![owner] = NoneValue]
                  ELSE reset_issued
            /\ resets_done' =
                  IF r.status = 200
                  THEN resets_done \cup {<<reset_token, users[r.user].email>>}
                  ELSE resets_done
            /\ UNCHANGED <<registered, session_issued, session_superseded,
                           reset_superseded>>

NextApp ==
    \/ PostUsers
    \/ PostSessions
    \/ DeleteSessions
    \/ GetProfile
    \/ PostResetPassword
    \/ PutResetPassword

\* The app serving one request at a time.
SpecApp == Init /\ [][NextApp]_vars

\* C14 (as claimed): POST /sessions with credentials for which valid_login is
\* False responds 401 and leaves every session_id as it was; with credentials
\* for which it is True it responds 200 and sets cookie session_id to a token
\* that resolves to that user.
C14_LoginIssuesSessionForValidCredentials ==
    (last.op = "POST /sessions")
       => LET v == valid_login(pre_users, last.email, last.password)
          IN  /\ (v.exc = "" /\ v.ret = "False")
                    => /\ last.status = 401
                       /\ Len(users) = Len(pre_users)
                       /\ \A i \in IdsOf(users) :
                             users[i].session_id = pre_users[i].session_id
              /\ (v.exc = "" /\ v.ret = "True")
                    => /\ last.status = 200
                       /\ ResolvesTo(last.ret, last.email)

C16_SuccessBodiesAsTested ==
    /\ (last.op = "POST /users" /\ last.email \notin EmailsOf(pre_users)
          /\ last.password # NoneValue)
          => /\ last.status = 200
             /\ last.message = "User created successfully"
    /\ (last.op = "PUT /reset_password" /\ last.owner # NoneValue
          /\ last.password # NoneValue)
          => /\ last.status = 200
             /\ last.message = "Password has been updated"


\* ------------------------------------------------------------- threads
\* The server handles requests in threads (app.run), so register_user calls
\* interleave: each is a lookup by email (auth.py:33) and, later, an insert
\* (auth.py:36-37), with other threads' steps in between.

\* The first half of register_user in thread t: the lookup.  A registered
\* email ends the call with ValueError; otherwise the thread goes on to insert.
RegisterLookup(t) ==
    /\ threads[t].pc = "idle"
    /\ \E email \in Emails, password \in Passwords :
          LET found == find_user_by(users, [email |-> email])
              call == [NoCall EXCEPT !.op = "register_user", !.email = email,
                                     !.password = password, !.queries = 1]
          IN  IF found.exc = "NoResultFound"
              THEN /\ threads' = [threads EXCEPT
                                    ![t] = [pc |-> "insert", email |-> email,
                                            password |-> password]]
                   /\ UNCHANGED <<users, pre_users, last>>
              ELSE /\ last' = [call EXCEPT
                                 !.exc = IF found.exc = "" THEN "ValueError"
                                         ELSE found.exc]
                   /\ pre_users' = users
                   /\ UNCHANGED <<users, threads>>
    /\ UNCHANGED <<uuids, registered, session_issued, session_superseded,
                   reset_issued, reset_superseded, resets_done>>

\* The second half of register_user in thread t: _hash_password and add_user.
RegisterInsert(t) ==
    /\ threads[t].pc = "insert"
    /\ Len(users) < MaxUsers
    /\ \E salt \in Salts :
          users' = add_user(users, threads[t].email,
                            hash_password(threads[t].password, salt))
    /\ pre_users' = users
    /\ last' = [NoCall EXCEPT !.op = "register_user",
                              !.email = threads[t].email,
                              !.password = threads[t].password,
                              !.ret = "User", !.user = Len(users) + 1,
                              !.queries = 1]
    /\ registered' = [registered EXCEPT ![threads[t].email] = threads[t].password]
    /\ threads' = [threads EXCEPT ![t] = Idle]
    /\ UNCHANGED <<uuids, session_issued, session_superseded,
                   reset_issued, reset_superseded, resets_done>>

NextConc ==
    \E t \in Threads : RegisterLookup(t) \/ RegisterInsert(t)

\* Concurrent register_user calls.
SpecConc == Init /\ [][NextConc]_vars

\* C17 (as claimed): in every reachable state, whatever the interleaving of
\* concurrent register_user calls, no two rows have the same email.
C17_EmailsUnique ==
    \A i, j \in IdsOf(users) : i # j => users[i].email # users[j].email


\* ------------------------------------------------------------- DB, directly
\* Keyword arguments a caller of DB may pass: none, known columns (id and
\* email among them), a name User does not have, and mixtures.
NoKwargs == [k \in {} |-> NoneValue]
FindKwargs ==
    {NoKwargs, [nickname |-> "nick"], [session_id |-> NoneValue],
     [email |-> "a@x.com", nickname |-> "nick"]}
        \cup {[email |-> e] : e \in Emails}
        \cup {[id |-> i] : i \in 1..MaxUsers}
UpdateKwargs ==
    {NoKwargs, [nickname |-> "nick"], [session_id |-> "u1"],
     [reset_token |-> "u2"], [hashed_password |-> hashpw("p2", "s1")],
     [email |-> "b@x.com"], [id |-> 2], [metadata |-> NoneValue],
     [session_id |-> "u1", nickname |-> "nick"]}

AddUser ==
    \E email \in Emails, password \in Passwords, salt \in Salts :
        LET tbl == add_user(users, email, hashpw(password, salt))
        IN  Returns([NoCall EXCEPT !.op = "add_user", !.email = email],
                    Outcome("", "User", Len(tbl), tbl, 0, 0))
    /\ UNCHANGED <<registered, session_issued, session_superseded,
                   reset_issued, reset_superseded, resets_done>>

FindUserBy ==
    \E kwargs \in FindKwargs :
        LET found == find_user_by(users, kwargs)
        IN  Returns([NoCall EXCEPT !.op = "find_user_by",
                                   !.keys = DOMAIN kwargs],
                    Outcome(found.exc, IF found.exc = "" THEN "User"
                                       ELSE NoneValue,
                            found.user, users, 1, 0))
    /\ UNCHANGED <<registered, session_issued, session_superseded,
                   reset_issued, reset_superseded, resets_done>>

UpdateUser ==
    \E user_id \in 1..MaxUsers, kwargs \in UpdateKwargs :
        LET upd == update_user(users, user_id, kwargs)
        IN  Returns([NoCall EXCEPT !.op = "update_user",
                                   !.user_id = user_id,
                                   !.keys = DOMAIN kwargs],
                    Outcome(upd.exc, NoneValue, 0, upd.tbl, 1, 0))
    /\ UNCHANGED <<registered, session_issued, session_superseded,
                   reset_issued, reset_superseded, resets_done>>

NextDB ==
    \/ AddUser
    \/ FindUserBy
    \/ UpdateUser

\* DB used directly, one call at a time.
SpecDB == Init /\ [][NextDB]_vars

\* The fields the interface of the store lets a caller change.
MutableFields == {"hashed_password", "session_id", "reset_token"}

\* C18 (as claimed): update_user raises NoResultFound when no row has the id,
\* and ValueError when a field name is not one of hashed_password,
\* session_id, reset_token (so for id and for email); when it raises, the
\* table is left as it was.
C18_OnlyMutableFieldsAccepted ==
    (last.op = "update_user")
       => /\ (last.user_id \notin IdsOf(pre_users))
                => last.exc = "NoResultFound"
          /\ (last.user_id \in IdsOf(pre_users)
                /\ ~(last.keys \subseteq MutableFields))
                => last.exc = "ValueError"
          /\ (last.exc # "") => users = pre_users

\* C18 (amended): update_user raises NoResultFound when no row has the id,
\* and ValueError when a field name is not an attribute of User; the names
\* of all columns, id and email among them, are accepted without error; when
\* it raises, the table is left as it was.
C18_OnlyAttributesAccepted ==
    (last.op = "update_user")
       => /\ (last.user_id \notin IdsOf(pre_users))
                => last.exc = "NoResultFound"
          /\ (last.user_id \in IdsOf(pre_users)
                /\ ~(last.keys \subseteq Columns \cup {"metadata"}))
                => last.exc = "ValueError"
          /\ (last.user_id \in IdsOf(pre_users) /\ last.keys \subseteq Columns)
                => last.exc = ""
          /\ (last.exc # "") => users = pre_users

\* C18's case: update_user is called with email for an existing id.
C18_Witness ==
    /\ last.op = "update_user" /\ last.keys = {"email"}
    /\ last.user_id \in IdsOf(users)
    /\ last.exc = ""

\* C19 (as claimed): find_user_by raises InvalidRequestError whenever the
\* criteria are empty or name something that is no column, and returns no
\* record then.
C19_EmptyOrUnknownCriteriaRejected ==
    (last.op = "find_user_by"
       /\ (last.keys = {} \/ ~(last.keys \subseteq Columns)))
       => last.exc = "InvalidRequestError" /\ last.user = 0

\* C19 (amended): find_user_by raises InvalidRequestError whenever the
\* criteria name something that is no column, in every store state; with
\* empty criteria it raises NoResultFound when the table is empty, returns
\* the record when the table holds exactly one, and raises
\* InvalidRequestError when it holds more; it never changes the table.
C19_UnknownRejectedEmptyMatchesAll ==
    (last.op = "find_user_by")
       => /\ ~(last.keys \subseteq Columns)
                => last.exc = "InvalidRequestError" /\ last.user = 0
          /\ (last.keys = {})
                => /\ Len(pre_users) = 0 => last.exc = "NoResultFound"
                   /\ Len(pre_users) = 1 => last.exc = "" /\ last.user = 1
                   /\ Len(pre_users) > 1 => last.exc = "InvalidRequestError"
          /\ users = pre_users

\* C19's case: find_user_by() without criteria while the table holds one row.
C19_Witness ==
    /\ last.op = "find_user_by" /\ last.keys = {}
    /\ Len(users) = 1
    /\ last.exc = "" /\ last.user = 1

====
